---------------------------- MODULE Spec2Model ----------------------------
(***************************************************************************)
(* A model of the HTTP server of src/main.go: the query-string decoder     *)
(* (parseQueryParams), the request parser (parseHttpRequest), the router   *)
(* (Server.AddRoute, Server.matchRoute), the response formatter            *)
(* (formatResponse), the connection handler (Server.handleConnection) and  *)
(* the accept loop (Server.Start).                                         *)
(*                                                                         *)
(* A Go string is a sequence of one-byte characters, each written as a     *)
(* one-character TLA+ string; a Go map[string]string is a function whose   *)
(* domain is the set of its keys.                                          *)
(***************************************************************************)
EXTENDS Integers, Sequences, FiniteSets, TLC

VARIABLES
    requestString,  \* parser: the raw text handed to parseHttpRequest
    shape,          \* parser: how requestString was put together (its request line)
    request,        \* parser: the *Request parseHttpRequest returned
    resp,           \* formatter: the *Response handed to formatResponse
    respBefore,     \* formatter: resp as it was when formatResponse was called
    formatted,      \* formatter: the string formatResponse returned
    routes,         \* Server.routes
    lastMatch,      \* router: the last call of matchRoute and what it returned
    listener,       \* Server.Start: where the accept loop stands
    accepted,       \* Server.Start: the number of connections accepted so far
    acceptErrors,   \* Server.Start: the number of failed Accept calls so far
    pc,             \* per connection: where its handleConnection goroutine stands
    peer,           \* per connection: how the remote end behaves
    conn            \* per connection: the calls made on it and what they carried

vars == <<requestString, shape, request, resp, respBefore, formatted, routes,
          lastMatch, listener, accepted, acceptErrors, pc, peer, conn>>

parserVars == <<requestString, shape, request>>
formatVars == <<resp, respBefore, formatted>>
routerVars == <<routes, lastMatch>>
serverVars == <<listener, accepted, acceptErrors, pc, peer, conn>>

\* A value that may be absent (a nil pointer, a call not made yet) is a
\* sequence of no element or of one.
None == <<>>
Some(v) == <<v>>
The(opt) == opt[1]

-----------------------------------------------------------------------------
(* Strings and maps of the Go standard library, as the code uses them.     *)

SP == " "
CRLF == <<"\r", "\n">>
EmptyMap == <<>>

MapPut(m, k, v) ==
    [x \in (DOMAIN m) \cup {k} |-> IF x = k THEN v ELSE m[x]]

HasPrefixAt(s, i, sep) ==
    /\ i + Len(sep) - 1 <= Len(s)
    /\ \A j \in 1..Len(sep) : s[i + j - 1] = sep[j]

\* strings.Index(s, sep), one-based; 0 where Go returns -1.
Index(s, sep) ==
    LET hits == {i \in 1..Len(s) : HasPrefixAt(s, i, sep)}
    IN  IF hits = {} THEN 0 ELSE CHOOSE i \in hits : \A j \in hits : i <= j

Drop(s, n) == SubSeq(s, n + 1, Len(s))

\* strings.Split(s, sep) for a non-empty sep: never an empty slice.
RECURSIVE Split(_, _)
Split(s, sep) ==
    LET i == Index(s, sep)
    IN  IF i = 0
        THEN <<s>>
        ELSE <<SubSeq(s, 1, i - 1)>> \o Split(Drop(s, i + Len(sep) - 1), sep)

\* strings.SplitN(s, sep, 2): cut at the first sep only.
SplitN2(s, sep) ==
    LET i == Index(s, sep)
    IN  IF i = 0
        THEN <<s>>
        ELSE <<SubSeq(s, 1, i - 1), Drop(s, i + Len(sep) - 1)>>

\* strings.Join(elems, sep).
RECURSIVE Join(_, _)
Join(elems, sep) ==
    IF Len(elems) = 0 THEN <<>>
    ELSE IF Len(elems) = 1 THEN elems[1]
    ELSE elems[1] \o sep \o Join(Tail(elems), sep)

Digit(d) == <<"0", "1", "2", "3", "4", "5", "6", "7", "8", "9">>[d + 1]

\* strconv.Itoa(n), also what fmt's %d prints.
RECURSIVE Itoa(_)
Itoa(n) ==
    IF n < 0 THEN <<"-">> \o Itoa(0 - n)
    ELSE IF n < 10 THEN <<Digit(n)>>
    ELSE Itoa(n \div 10) \o <<Digit(n % 10)>>

-----------------------------------------------------------------------------
(* The query-string decoder and the request parser.                        *)

\* Mutation of QueryLoop: an earlier duplicate key is kept, not overwritten.
RECURSIVE QueryLoopFirstWins(_, _)
QueryLoopFirstWins(tokens, params) ==
    IF Len(tokens) = 0 THEN params
    ELSE LET keyValue == SplitN2(tokens[1], <<"=">>)
         IN  QueryLoopFirstWins(Tail(tokens),
                 IF Len(keyValue) = 2 /\ keyValue[1] \notin DOMAIN params
                 THEN MapPut(params, keyValue[1], keyValue[2])
                 ELSE params)

\* The loop of parseQueryParams over the '&'-separated tokens, in order.
RECURSIVE QueryLoop(_, _)
QueryLoop(tokens, params) ==
    IF Len(tokens) = 0 THEN params
    ELSE LET keyValue == SplitN2(tokens[1], <<"=">>)
         IN  QueryLoop(Tail(tokens),
                 IF Len(keyValue) = 2
                 THEN MapPut(params, keyValue[1], keyValue[2])
                 ELSE params)

parseQueryParams(path) ==
    LET parts == SplitN2(path, <<"?">>)
    IN  IF Len(parts) < 2
        THEN [path |-> path, params |-> EmptyMap]
        ELSE [path |-> parts[1],
              params |-> QueryLoop(Split(parts[2], <<"&">>), EmptyMap)]

\* headerBodySplit of parseHttpRequest: Go's zero-based index of the first
\* empty line, -1 when there is none.
HeaderBodySplit(lines) ==
    LET empty == {i \in 1..Len(lines) : lines[i] = <<>>}
    IN  IF empty = {} THEN -1
        ELSE (CHOOSE i \in empty : \A j \in empty : i <= j) - 1

\* The header loop of parseHttpRequest: Go's lines[i] for i = from .. upto-1.
RECURSIVE HeaderLoop(_, _, _, _)
HeaderLoop(lines, i, upto, headers) ==
    IF i >= upto THEN headers
    ELSE LET parts == SplitN2(lines[i + 1], <<":", " ">>)
         IN  HeaderLoop(lines, i + 1, upto,
                 IF lines[i + 1] # <<>> /\ Len(parts) = 2
                 THEN MapPut(headers, parts[1], parts[2])
                 ELSE headers)

\* The body of parseHttpRequest: the lines after the empty one, rejoined.
ParseBody(lines, headerBodySplit) ==
    IF headerBodySplit > 0 /\ headerBodySplit < Len(lines) - 1
    THEN Join(SubSeq(lines, headerBodySplit + 2, Len(lines)), CRLF)
    ELSE <<>>

parseHttpRequest(raw) ==
    LET lines == Split(raw, CRLF)
        requestLineParts == Split(lines[1], <<SP>>)
        hasLine == Len(lines) > 0 /\ Len(requestLineParts) >= 2
        decoded == parseQueryParams(requestLineParts[2])
        headerBodySplit == HeaderBodySplit(lines)
    IN  [Method      |-> IF hasLine THEN requestLineParts[1] ELSE <<>>,
         Path        |-> IF hasLine THEN decoded.path ELSE <<>>,
         Headers     |-> HeaderLoop(lines, 1, headerBodySplit, EmptyMap),
         Body        |-> ParseBody(lines, headerBodySplit),
         QueryParams |-> IF hasLine THEN decoded.params ELSE EmptyMap]

-----------------------------------------------------------------------------
(* The response formatter.                                                 *)

\* The reason phrase formatResponse picks for a status code.
StatusText(code) ==
    IF code # 200 THEN <<"N", "o", "t", " ", "F", "o", "u", "n", "d">>
    ELSE IF code = 500 THEN <<"I", "n", "t", "e", "r", "n", "a", "l", " ", "S", "e", "r", "v", "e", "r", " ", "E", "r", "r", "o", "r">>
    ELSE <<"O", "K">>

\* Mutation of WithDefaults: Content-Length is always computed from the body.
WithDefaultsOverwriting(headers, body, now) ==
    LET dated == IF <<"D", "a", "t", "e">> \in DOMAIN headers
                 THEN headers ELSE MapPut(headers, <<"D", "a", "t", "e">>, now)
    IN  MapPut(dated, <<"C", "o", "n", "t", "e", "n", "t", "-", "L", "e", "n", "g", "t", "h">>, Itoa(Len(body)))

\* resp.Headers after the two "if not present" blocks of formatResponse; now
\* is the text time.Now().UTC().Format(...) returned.
WithDefaults(headers, body, now) ==
    LET dated == IF <<"D", "a", "t", "e">> \in DOMAIN headers
                 THEN headers ELSE MapPut(headers, <<"D", "a", "t", "e">>, now)
    IN  IF <<"C", "o", "n", "t", "e", "n", "t", "-", "L", "e", "n", "g", "t", "h">> \in DOMAIN dated
        THEN dated ELSE MapPut(dated, <<"C", "o", "n", "t", "e", "n", "t", "-", "L", "e", "n", "g", "t", "h">>, Itoa(Len(body)))

\* The names of the headers a response passed to formatResponse carries here.
HeaderNames ==
    {<<"D", "a", "t", "e">>, <<"C", "o", "n", "t", "e", "n", "t", "-", "L", "e", "n", "g", "t", "h">>, <<"C", "o", "n", "t", "e", "n", "t", "-", "T", "y", "p", "e">>, <<"S", "e", "r", "v", "e", "r">>, <<"d", "a", "t", "e">>}

\* The orders in which a range loop may visit the keys of a map: Go leaves
\* the order unspecified, so every order is possible.
Orders(keys) ==
    {o \in [1..Cardinality(keys) -> keys] :
        \A i, j \in 1..Cardinality(keys) : i # j => o[i] # o[j]}

\* Every order of every set of keys, and one order of each.
AllOrders == UNION {Orders(keys) : keys \in SUBSET HeaderNames}
OneOrderEach == {CHOOSE o \in Orders(keys) : TRUE : keys \in SUBSET HeaderNames}

\* The header loop of formatResponse, visiting the keys in the given order.
RECURSIVE HeaderLines(_, _)
HeaderLines(headers, order) ==
    IF Len(order) = 0 THEN <<>>
    ELSE order[1] \o <<":", " ">> \o headers[order[1]] \o CRLF
            \o HeaderLines(headers, Tail(order))

\* formatResponse(resp): the string returned, and resp with the headers the
\* call added to it (resp is a pointer; the caller sees them).
formatResponse(r, now, order) ==
    LET headers == WithDefaults(r.Headers, r.Body, now)
    IN  [result |-> <<"H", "T", "T", "P", "/", "1", ".", "1", " ">> \o Itoa(r.StatusCode) \o <<SP>>
                        \o StatusText(r.StatusCode) \o CRLF
                        \o HeaderLines(headers, order)
                        \o CRLF \o r.Body,
         resp   |-> [r EXCEPT !.Headers = headers]]

\* The texts time.Now().UTC().Format("Mon, 02 Jan 2006 15:04:05 GMT") may return.
Clock == {<<"W", "e", "d", ",", " ", "0", "4", " ", "N", "o", "v", " ", "2", "0", "2", "6", " ", "0", "8", ":", "0", "0", ":", "0", "0", " ", "G", "M", "T">>, <<"T", "h", "u", ",", " ", "3", "1", " ", "D", "e", "c", " ", "2", "0", "2", "6", " ", "2", "3", ":", "5", "9", ":", "5", "9", " ", "G", "M", "T">>}

-----------------------------------------------------------------------------
(* The router.                                                             *)

\* NewServer().routes
NewServer == <<>>

AddRoute(rts, method, path, handler) ==
    Append(rts, [method |-> method, path |-> path, handler |-> handler])

\* The handler value matchRoute returns when no route matches.
NilHandler == "nil"

\* Mutation of matchRoute: the loop does not return at the first match, so the
\* last matching route wins.
matchRouteLast(rts, req) ==
    LET hits == {i \in 1..Len(rts) :
                    rts[i].method = req.Method /\ rts[i].path = req.Path}
    IN  IF hits = {} THEN [handler |-> NilHandler, found |-> FALSE]
        ELSE [handler |-> rts[CHOOSE i \in hits : \A j \in hits : i >= j].handler,
              found |-> TRUE]

\* The loop of matchRoute from route i on (one-based).
RECURSIVE MatchFrom(_, _, _)
MatchFrom(rts, i, req) ==
    IF i > Len(rts) THEN [handler |-> NilHandler, found |-> FALSE]
    ELSE IF rts[i].method = req.Method /\ rts[i].path = req.Path
    THEN [handler |-> rts[i].handler, found |-> TRUE]
    ELSE MatchFrom(rts, i + 1, req)

matchRoute(rts, req) == MatchFrom(rts, 1, req)

-----------------------------------------------------------------------------
(* Handlers: the functions a caller registers. The repository registers    *)
(* none; these stand for what a handler may do to the response it is given *)
(* (set the status code, the body, set, replace and delete headers) and to *)
(* read from the request.                                                  *)

Handlers == {"hello", "echo", "fail", "custom"}

ApplyHandler(h, req, r) ==
    CASE h = "hello" -> [r EXCEPT !.Body = <<"h", "i">>]
      [] h = "echo" ->
            [r EXCEPT !.Body = IF <<"m">> \in DOMAIN req.QueryParams
                                THEN req.QueryParams[<<"m">>] ELSE req.Body]
      [] h = "fail" -> [r EXCEPT !.StatusCode = 500, !.Body = <<"b", "o", "o", "m">>]
      [] h = "custom" ->
            [StatusCode |-> 201,
             Headers |-> [k \in {<<"D", "a", "t", "e">>, <<"C", "o", "n", "t", "e", "n", "t", "-", "L", "e", "n", "g", "t", "h">>} |->
                             IF k = <<"D", "a", "t", "e">> THEN <<"t", "h", "e", "n">> ELSE <<"0">>],
             Body |-> <<"m", "a", "d", "e">>]

-----------------------------------------------------------------------------
(* The connection handler.                                                 *)

\* The size of the buffer handleConnection reads into.
BufferSize == 4096

\* The response handleConnection starts from.
DefaultResponse ==
    [StatusCode |-> 200,
     Headers |-> [k \in {<<"C", "o", "n", "t", "e", "n", "t", "-", "T", "y", "p", "e">>, <<"S", "e", "r", "v", "e", "r">>} |->
                     IF k = <<"S", "e", "r", "v", "e", "r">> THEN <<"G", "o", "C", "u", "s", "t", "o", "m", "H", "T", "T", "P", "/", "1", ".", "0">>
                     ELSE <<"t", "e", "x", "t", "/", "p", "l", "a", "i", "n">>],
     Body |-> <<>>]

\* Mutation of NotFound: the status code is left as it was.
NotFoundKeepingStatus(r, req) ==
    [r EXCEPT !.Body = <<"4", "0", "4", " ", "N", "o", "t", " ", "F", "o", "u", "n", "d", ":", " ">> \o req.Path]

\* The else branch of handleConnection: no route found.
NotFound(r, req) ==
    [r EXCEPT !.StatusCode = 404, !.Body = <<"4", "0", "4", " ", "N", "o", "t", " ", "F", "o", "u", "n", "d", ":", " ">> \o req.Path]

\* Mutation of AbortAfterRead: text without a CRLF is turned away.
AbortAfterReadStrict(err, data) == err \/ Index(data, CRLF) = 0

\* Whether handleConnection returns right after the read: on an error only,
\* whatever was read.
AbortAfterRead(err, data) == err

\* Mutation of OnReturn: the connection is left open.
OnReturnLeaking == "done"

\* Where a return of handleConnection leads: to the deferred conn.Close().
OnReturn == "close"

\* parse, match, handle or 404: the response handleConnection formats for the
\* text it read, and the handler calls it made on the way.
Dispatch(rts, data) ==
    LET req == parseHttpRequest(data)
        m == matchRoute(rts, req)
    IN  [request |-> req,
         calls |-> IF m.found THEN <<m.handler>> ELSE <<>>,
         response |-> IF m.found
                      THEN ApplyHandler(m.handler, req, DefaultResponse)
                      ELSE NotFound(DefaultResponse, req)]

\* conn.Read(buffer) returns; then, unless handleConnection returns, all it
\* does up to the call of conn.Write. sent is what the peer has sent, n the
\* number of bytes this Read takes of it, err whether Read reports an error.
\* times are the times the clock may show, orders the orders the header loop
\* may take, as the set of the sequences of keys.
HandleRead(c, sent, n, err, times, orders) ==
    /\ pc[c] = "read"
    /\ peer[c] # "silent"
    /\ n <= BufferSize /\ n <= Len(sent)
    /\ LET data == SubSeq(sent, 1, n)
           did == Dispatch(routes, data)
           afterRead == [conn[c] EXCEPT !.ops = Append(@, "read"),
                                        !.read = Some([n |-> n, err |-> err])]
       IN  IF AbortAfterRead(err, data)
           THEN /\ conn' = [conn EXCEPT ![c] = afterRead]
                /\ pc' = [pc EXCEPT ![c] = OnReturn]
           ELSE \E now \in times :
                \E order \in Orders(DOMAIN WithDefaults(did.response.Headers,
                                                        did.response.Body, now))
                                \cap orders :
                   /\ conn' = [conn EXCEPT ![c] =
                         [afterRead EXCEPT
                            !.parsed = Some(did.request),
                            !.handler = did.calls,
                            !.left = Some(did.response),
                            !.out = Some(formatResponse(did.response, now,
                                                        order).result)]]
                   /\ pc' = [pc EXCEPT ![c] = "write"]
    /\ UNCHANGED <<parserVars, formatVars, routerVars, listener, accepted,
                   acceptErrors, peer>>

\* conn.Write(responseString) returns; its result is discarded, so a failed
\* and a completed Write leave the goroutine in the same state.
HandleWrite(c) ==
    /\ pc[c] = "write"
    /\ peer[c] # "stalled"
    /\ conn' = [conn EXCEPT ![c].ops = Append(@, "write"),
                            ![c].written = Append(@, The(conn[c].out))]
    /\ pc' = [pc EXCEPT ![c] = OnReturn]
    /\ UNCHANGED <<parserVars, formatVars, routerVars, listener, accepted,
                   acceptErrors, peer>>

\* The deferred conn.Close() runs and handleConnection is over.
HandleClose(c) ==
    /\ pc[c] = "close"
    /\ conn' = [conn EXCEPT ![c].ops = Append(@, "close")]
    /\ pc' = [pc EXCEPT ![c] = "done"]
    /\ UNCHANGED <<parserVars, formatVars, routerVars, listener, accepted,
                   acceptErrors, peer>>

-----------------------------------------------------------------------------
(* Server.Start: net.Listen, then the accept loop.                         *)

\* net.Listen returns: the loop is entered, or Start returns the error.
Listen(ok) ==
    /\ listener = "unstarted"
    /\ listener' = IF ok THEN "accepting" ELSE "bindError"
    /\ UNCHANGED <<parserVars, formatVars, routerVars, accepted, acceptErrors,
                   pc, peer, conn>>

\* Mutation of LoopWaitsFor: handleConnection is called, not started with go,
\* so the loop waits for it to return.
LoopWaitsForCall(pcs) == {c \in DOMAIN pcs : pcs[c] \notin {"idle", "done"}}

\* The goroutines the accept loop waits for before it calls Accept again:
\* none, handleConnection is started with go.
LoopWaitsFor(pcs) == {}

\* listener.Accept() returns the next connection and its goroutine starts;
\* kind is how the remote end will behave.
Accept(kind) ==
    /\ listener = "accepting"
    /\ LoopWaitsFor(pc) = {}
    /\ accepted < Cardinality(DOMAIN pc)
    /\ accepted' = accepted + 1
    /\ pc' = [pc EXCEPT ![accepted + 1] = "read"]
    /\ peer' = [peer EXCEPT ![accepted + 1] = kind]
    /\ UNCHANGED <<parserVars, formatVars, routerVars, listener, acceptErrors,
                   conn>>

\* listener.Accept() returns an error: the loop goes on (continue).
AcceptError(max) ==
    /\ listener = "accepting"
    /\ LoopWaitsFor(pc) = {}
    /\ acceptErrors < max
    /\ acceptErrors' = acceptErrors + 1
    /\ UNCHANGED <<parserVars, formatVars, routerVars, listener, accepted,
                   pc, peer, conn>>

\* How a remote end may behave: it sends and reads, it never sends (Read
\* blocks for ever), or it sends but never reads (Write blocks for ever).
PeerKinds == {"sends", "silent", "stalled"}

-----------------------------------------------------------------------------
(* Bounds, and the values of the variables a specification does not use.   *)

\* The largest number of connections the accept loop takes in one run.
MaxConns == 2
\* The largest number of failed Accept calls in one run.
MaxAcceptErrors == 1
\* The longest route table AddRoute builds.
MaxRoutes == 3
\* The longest query part of a request-target handed to the parser.
MaxQueryLen == 5
\* The largest number of pieces a raw request is put together from.
MaxPieces == 5

Conns == 1..MaxConns

\* A connection nothing was done with: the calls made on it (ops), what Read
\* returned (read), the request parsed (parsed), the handlers called
\* (handler), the response as the handler or the 404 branch left it (left),
\* the string formatted (out) and the strings handed to Write (written).
NoConn == [ops |-> <<>>, read |-> None, parsed |-> None, handler |-> <<>>,
           left |-> None, out |-> None, written |-> <<>>]

NoShape == [line |-> FALSE, method |-> <<>>, target |-> <<>>]
ParserIdle == requestString = <<>> /\ shape = NoShape /\ request = None
FormatIdle == resp = None /\ respBefore = None /\ formatted = None
RouterIdle == routes = <<>> /\ lastMatch = None
ServerIdle ==
    /\ listener = "unstarted"
    /\ accepted = 0
    /\ acceptErrors = 0
    /\ pc = [c \in Conns |-> "idle"]
    /\ peer = [c \in Conns |-> "unknown"]
    /\ conn = [c \in Conns |-> NoConn]

RECURSIVE SeqsUpTo(_, _)
SeqsUpTo(alphabet, n) ==
    IF n = 0 THEN {<<>>}
    ELSE LET shorter == SeqsUpTo(alphabet, n - 1)
         IN  shorter \cup {s \o <<a>> : s \in shorter, a \in alphabet}

RECURSIVE Concat(_)
Concat(pieces) ==
    IF Len(pieces) = 0 THEN <<>> ELSE pieces[1] \o Concat(Tail(pieces))

-----------------------------------------------------------------------------
(* SpecParse: parseHttpRequest applied to one raw The(request).                 *)

Methods == {<<"G", "E", "T">>, <<>>}
QueryAlphabet == {"a", "?", "=", "&"}
Targets ==
    {prefix \o t : prefix \in {<<>>, <<"/", "x">>},
                   t \in SeqsUpTo(QueryAlphabet, MaxQueryLen)}
\* What follows the request line: nothing, or headers, a blank line and a body.
Tails == {<<>>, <<"\r", "\n", "H", "o", "s", "t", ":", " ", "x", "\r", "\n", "\r", "\n", "h", "i">>}

\* Requests with a request line "<METHOD> <TARGET> HTTP/1.1", METHOD and
\* TARGET holding no space and no line break.
LineRequests ==
    {[raw    |-> m \o <<SP>> \o t \o <<" ", "H", "T", "T", "P", "/", "1", ".", "1">> \o tail,
      line   |-> TRUE, method |-> m, target |-> t]
        : m \in Methods, t \in Targets, tail \in Tails}

\* Arbitrary text: any run of pieces, well-formed or not.
Pieces == {CRLF, <<"\r">>, <<"a">>, <<"k", ":", " ", "v", "\r", "\n">>, <<"G", " ", "/", "p", "\r", "\n">>}
PieceRequests ==
    {[raw |-> Concat(ps), line |-> FALSE, method |-> <<>>, target |-> <<>>]
        : ps \in SeqsUpTo(Pieces, MaxPieces)}

ParseInit ==
    /\ \E r \in LineRequests \cup PieceRequests :
          /\ requestString = r.raw
          /\ shape = [line |-> r.line, method |-> r.method, target |-> r.target]
    /\ request = None
    /\ FormatIdle /\ RouterIdle /\ ServerIdle

Parse ==
    /\ request = None
    /\ request' = Some(parseHttpRequest(requestString))
    /\ UNCHANGED <<requestString, shape, formatVars, routerVars, serverVars>>

ParseNext == Parse
SpecParse == ParseInit /\ [][ParseNext]_vars

Chars(s) == {s[i] : i \in 1..Len(s)}
MinOf(S) == CHOOSE i \in S : \A j \in S : i <= j
MaxOf(S) == CHOOSE i \in S : \A j \in S : i >= j

\* The '&'-separated tokens of a query string, as the spans <<i, j>> between
\* neighbouring cuts; the token is qs[i+1 .. j-1].
TokenSpans(qs) ==
    LET cuts == {0} \cup {i \in 1..Len(qs) : qs[i] = "&"} \cup {Len(qs) + 1}
    IN  {sp \in cuts \X cuts :
            sp[1] < sp[2] /\ \A k \in cuts : ~(sp[1] < k /\ k < sp[2])}
EqualsIn(qs, sp) == {k \in (sp[1] + 1)..(sp[2] - 1) : qs[k] = "="}
KeyOf(qs, sp) == SubSeq(qs, sp[1] + 1, MinOf(EqualsIn(qs, sp)) - 1)
ValueOf(qs, sp) == SubSeq(qs, MinOf(EqualsIn(qs, sp)) + 1, sp[2] - 1)
KeyedSpans(qs) == {sp \in TokenSpans(qs) : EqualsIn(qs, sp) # {}}

\* The decomposition of a query string the decoder is specified to yield.
ExpectedParams(qs) ==
    LET keyed == KeyedSpans(qs)
        keys == {KeyOf(qs, sp) : sp \in keyed}
        last(k) == CHOOSE sp \in keyed :
                      /\ KeyOf(qs, sp) = k
                      /\ \A other \in keyed :
                            KeyOf(qs, other) = k => other[1] <= sp[1]
    IN  [k \in keys |-> ValueOf(qs, last(k))]

QuestionMarks(t) == {i \in 1..Len(t) : t[i] = "?"}

\* C4: for a request whose first line is "<METHOD> <TARGET> HTTP/1.1", the
\* parser yields Method = METHOD, Path = the part of TARGET before its first
\* '?' (so Path holds no '?'), and QueryParams = the decomposition of the part
\* after it (split on '&', each token on its first '=', tokens without '='
\* dropped, a later duplicate key overwriting an earlier one); with no '?' in
\* TARGET, Path = TARGET and QueryParams is empty.
C4_RequestLine ==
    (request # None /\ shape.line) =>
        LET t == shape.target
            qm == QuestionMarks(t)
        IN  /\ The(request).Method = shape.method
            /\ "?" \notin Chars(The(request).Path)
            /\ IF qm = {}
               THEN The(request).Path = t /\ The(request).QueryParams = EmptyMap
               ELSE /\ The(request).Path = SubSeq(t, 1, MinOf(qm) - 1)
                    /\ The(request).QueryParams = ExpectedParams(Drop(t, MinOf(qm)))

\* A parsed request line whose query repeats a key with another value, after
\* a path that is not empty.
C4_Witness ==
    /\ request # None /\ shape.line
    /\ QuestionMarks(shape.target) # {}
    /\ The(request).Path # <<>>
    /\ LET qs == Drop(shape.target, MinOf(QuestionMarks(shape.target)))
       IN  \E s1, s2 \in KeyedSpans(qs) :
              /\ s1[1] < s2[1]
              /\ KeyOf(qs, s1) = KeyOf(qs, s2)
              /\ ValueOf(qs, s1) # ValueOf(qs, s2)
              /\ The(request).QueryParams[KeyOf(qs, s1)] = ValueOf(qs, s2)

\* The body the parser is specified to yield: what follows the first empty
\* line. The first line is empty when the text starts with CRLF; a later line
\* is empty and not the last where CRLF CRLF first occurs.
ExpectedBody(raw) ==
    IF HasPrefixAt(raw, 1, CRLF) THEN Drop(raw, 2)
    ELSE LET i == Index(raw, CRLF \o CRLF)
         IN  IF i = 0 THEN <<>> ELSE Drop(raw, i + 3)

\* C9: Body is all lines strictly after the first empty line, rejoined with
\* CRLF, wherever that line is, the first line included; Body is empty when
\* the empty line is the last line or there is none.
C9_BodyAfterBoundary ==
    request # None => The(request).Body = ExpectedBody(requestString)

\* The same, for requests whose first line is not empty.
C9_BodyAfterLaterBoundary ==
    (request # None /\ ~HasPrefixAt(requestString, 1, CRLF)) =>
        The(request).Body = ExpectedBody(requestString)

-----------------------------------------------------------------------------
(* SpecFormat: formatResponse applied to one Response.                     *)

StatusCodes == {200, 201, 404, 500}
Bodies == {<<>>, <<"h", "i">>, <<"a", "\r", "\n", "\r", "\n", "b">>, <<"H", "e", "l", "l", "o", ",", " ", "W", "o", "r", "l", "d">>}
HeaderValues ==
    [k \in HeaderNames \ {<<"C", "o", "n", "t", "e", "n", "t", "-", "T", "y", "p", "e">>} |->
        CASE k = <<"D", "a", "t", "e">> -> {<<"t", "h", "e", "n">>, <<>>}
          [] k = <<"C", "o", "n", "t", "e", "n", "t", "-", "L", "e", "n", "g", "t", "h">> -> {<<"2">>, <<"9", "9">>}
          [] k = <<"d", "a", "t", "e">> -> {<<"l", "o", "w">>}
          [] k = <<"S", "e", "r", "v", "e", "r">> -> {<<"G", "o", "C", "u", "s", "t", "o", "m", "H", "T", "T", "P", "/", "1", ".", "0">>}]
HeaderMaps ==
    UNION {{m \in [keys -> UNION {HeaderValues[k] : k \in keys}] :
                \A k \in keys : m[k] \in HeaderValues[k]}
            : keys \in SUBSET DOMAIN HeaderValues}
Responses == [StatusCode : StatusCodes, Headers : HeaderMaps, Body : Bodies]

FormatInit ==
    /\ resp \in {Some(r) : r \in Responses}
    /\ respBefore = None
    /\ formatted = None
    /\ ParserIdle /\ RouterIdle /\ ServerIdle

Format ==
    /\ formatted = None
    /\ \E now \in Clock :
       \E order \in Orders(DOMAIN WithDefaults(The(resp).Headers,
                                               The(resp).Body, now)) :
          LET got == formatResponse(The(resp), now, order)
          IN  /\ formatted' = Some(got.result)
              /\ resp' = Some(got.resp)
              /\ respBefore' = resp
    /\ UNCHANGED <<parserVars, routerVars, serverVars>>

FormatNext == Format
SpecFormat == FormatInit /\ [][FormatNext]_vars

\* The reason phrase the formatter is specified to pick.
SpecifiedPhrase(code) ==
    IF code = 200 THEN <<"O", "K">>
    ELSE IF code = 500 THEN <<"I", "n", "t", "e", "r", "n", "a", "l", " ", "S", "e", "r", "v", "e", "r", " ", "E", "r", "r", "o", "r">>
    ELSE <<"N", "o", "t", " ", "F", "o", "u", "n", "d">>

\* C1: the output starts with the status line "HTTP/1.1 <c> <phrase>\r\n",
\* phrase being "OK" for 200, "Internal Server Error" for 500 and "Not Found"
\* for every other code.
C1_StatusLine ==
    formatted # None =>
        HasPrefixAt(The(formatted), 1,
            <<"H", "T", "T", "P", "/", "1", ".", "1", " ">> \o Itoa(The(respBefore).StatusCode) \o <<SP>>
                \o SpecifiedPhrase(The(respBefore).StatusCode) \o CRLF)

\* The same, with "Not Found" for every code but 200.
C1_StatusLineAsCoded ==
    formatted # None =>
        HasPrefixAt(The(formatted), 1,
            <<"H", "T", "T", "P", "/", "1", ".", "1", " ">> \o Itoa(The(respBefore).StatusCode) \o <<SP>>
                \o (IF The(respBefore).StatusCode = 200
                    THEN <<"O", "K">> ELSE <<"N", "o", "t", " ", "F", "o", "u", "n", "d">>) \o CRLF)

\* The header block of a formatted response: the <<name, value>> pairs of the
\* lines between the status line and the first empty line.
EmittedHeaders(out) ==
    LET lines == Split(out, CRLF)
        stop == MinOf({i \in 1..Len(lines) : lines[i] = <<>>})
    IN  {SplitN2(lines[i], <<":", " ">>) : i \in 2..(stop - 1)}

\* What follows the first empty line of a formatted response.
EmittedBody(out) == Drop(out, Index(out, CRLF \o CRLF) + 3)

\* The number a string of decimal digits with no sign and no leading zero
\* denotes; -1 for any other string.
RECURSIVE DigitsValue(_)
DigitsValue(s) ==
    IF Len(s) = 0 THEN 0
    ELSE LET d == {v \in 0..9 : Digit(v) = s[Len(s)]}
             rest == DigitsValue(SubSeq(s, 1, Len(s) - 1))
         IN  IF d = {} \/ rest < 0 THEN -1
             ELSE 10 * rest + (CHOOSE v \in d : TRUE)
DecimalValue(s) ==
    IF Len(s) = 0 \/ (Len(s) > 1 /\ s[1] = "0") THEN -1 ELSE DigitsValue(s)

-----------------------------------------------------------------------------
(* SpecRouter: AddRoute calls, and matchRoute calls between them.          *)

\* The routes registered: two handlers for one method and path, and routes
\* that differ from them in the case of the method or by one character of
\* the path.
RouteEntries ==
    {[method |-> <<"G", "E", "T">>, path |-> <<"/", "x">>, handler |-> "hello"],
     [method |-> <<"G", "E", "T">>, path |-> <<"/", "x">>, handler |-> "fail"],
     [method |-> <<"g", "e", "t">>, path |-> <<"/", "x">>, handler |-> "echo"],
     [method |-> <<"G", "E", "T">>, path |-> <<"/", "x", "/">>, handler |-> "custom"]}

\* Requests to look up: the methods and paths of the routes and others, each
\* with and without query parameters, headers and a body.
ProbeRequests ==
    {[Method |-> m, Path |-> p, Headers |-> rest.h, Body |-> rest.b,
      QueryParams |-> rest.q]
        : m \in {<<"G", "E", "T">>, <<"g", "e", "t">>},
          p \in {<<"/", "x">>, <<"/", "x", "/">>, <<"/">>},
          rest \in {[h |-> EmptyMap, b |-> <<>>, q |-> EmptyMap],
                    [h |-> [k \in {<<"H", "o", "s", "t">>} |-> <<"x">>], b |-> <<"h", "i">>,
                     q |-> [k \in {<<"m">>} |-> <<"1">>]]}}

RouterInit ==
    /\ routes = NewServer
    /\ lastMatch = None
    /\ ParserIdle /\ FormatIdle /\ ServerIdle

Register ==
    /\ Len(routes) < MaxRoutes
    /\ \E r \in RouteEntries :
          routes' = AddRoute(routes, r.method, r.path, r.handler)
    /\ UNCHANGED <<lastMatch, parserVars, formatVars, serverVars>>

Lookup ==
    /\ \E req \in ProbeRequests :
          lastMatch' = Some([req |-> req, table |-> routes,
                             got |-> matchRoute(routes, req)])
    /\ UNCHANGED <<routes, parserVars, formatVars, serverVars>>

RouterNext == Register \/ Lookup
SpecRouter == RouterInit /\ [][RouterNext]_vars

\* The routes of a table whose method and path equal the request's.
Matching(rts, req) ==
    {i \in 1..Len(rts) : rts[i].method = req.Method /\ rts[i].path = req.Path}

\* What a lookup returned is the handler of the earliest matching route of
\* the table it was made on, and not found when no route matches.
FirstMatchReturned ==
    lastMatch # None =>
        LET call == The(lastMatch)
            hits == Matching(call.table, call.req)
        IN  IF hits = {}
            THEN ~call.got.found
            ELSE /\ call.got.found
                 /\ call.got.handler = call.table[MinOf(hits)].handler

\* Requests with the same method and path get the same answer.
OnlyMethodAndPath ==
    \A r1, r2 \in ProbeRequests :
        (r1.Method = r2.Method /\ r1.Path = r2.Path) =>
            matchRoute(routes, r1) = matchRoute(routes, r2)

\* A registration changes the answer of no request that had a match.
WinnerStays ==
    \A req \in ProbeRequests :
        matchRoute(routes, req).found =>
            matchRoute(routes', req) = matchRoute(routes, req)

\* C3: after any sequence of AddRoute calls matchRoute returns the handler of
\* the earliest-registered route whose method and path equal the request's
\* exactly, and found = false when there is none; the answer depends on the
\* method, the path and the routes alone; a later duplicate registration
\* never changes which handler wins.
C3_FirstMatchWins ==
    /\ [](FirstMatchReturned /\ OnlyMethodAndPath)
    /\ [][WinnerStays]_vars

\* A lookup on a table with two routes for the same method and path and
\* different handlers, for a request with query parameters and a body, that
\* returned the earlier route's handler.
C3_Witness ==
    /\ lastMatch # None
    /\ LET call == The(lastMatch)
           hits == Matching(call.table, call.req)
       IN  /\ Cardinality(hits) >= 2
           /\ call.table[MinOf(hits)].handler # call.table[MaxOf(hits)].handler
           /\ call.req.QueryParams # EmptyMap /\ call.req.Body # <<>>
           /\ call.got.found
           /\ call.got.handler = call.table[MinOf(hits)].handler

-----------------------------------------------------------------------------
(* SpecConn: one run of handleConnection, on connection 1.                 *)

\* The routes of the server the connections are handled by: two handlers for
\* GET /x, and a route whose method and path are empty.
ServerRoutes ==
    AddRoute(AddRoute(AddRoute(AddRoute(NewServer,
        <<"G", "E", "T">>, <<"/", "x">>, "hello"),
        <<"G", "E", "T">>, <<"/", "e", "c", "h", "o">>, "echo"),
        <<"G", "E", "T">>, <<"/", "x">>, "fail"),
        <<>>, <<>>, "custom")

\* What a peer may send: requests for the routes, with and without a query
\* string, requests for no route, and text that is no request.
Inbound ==
    {<<"G", "E", "T", " ", "/", "x", " ", "H", "T", "T", "P", "/", "1", ".", "1", "\r", "\n", "\r", "\n">>,
     <<"G", "E", "T", " ", "/", "e", "c", "h", "o", "?", "m", "=", "y", "o", " ", "H", "T", "T", "P", "/", "1", ".", "1", "\r", "\n", "H", "o", "s", "t", ":", " ", "x", "\r", "\n", "\r", "\n">>,
     <<"G", "E", "T", " ", "/", "m", "i", "s", "s", "i", "n", "g", "?", "q", "=", "1", " ", "H", "T", "T", "P", "/", "1", ".", "1", "\r", "\n", "\r", "\n">>,
     <<"P", "O", "S", "T", " ", "/", "x", " ", "H", "T", "T", "P", "/", "1", ".", "1", "\r", "\n", "\r", "\n", "h", "i">>,
     <<"G", "E", "T", " ", "/", "x">>,
     <<"g", "a", "r", "b", "a", "g", "e">>,
     <<"\r", "\n">>,
     <<"k", ":", " ", "v", "\r", "\n", "G", "E", "T", " ", "/", "x">>}

ConnInit ==
    /\ routes \in {NewServer, ServerRoutes}
    /\ lastMatch = None
    /\ listener = "accepting"
    /\ accepted = 1
    /\ acceptErrors = 0
    /\ pc = [c \in Conns |-> IF c = 1 THEN "read" ELSE "idle"]
    /\ peer \in {[c \in Conns |-> IF c = 1 THEN kind ELSE "unknown"]
                    : kind \in PeerKinds}
    /\ conn = [c \in Conns |-> NoConn]
    /\ ParserIdle /\ FormatIdle

ConnRead ==
    \E sent \in Inbound, err \in BOOLEAN :
    \E n \in {0, Len(sent)} :
        HandleRead(1, sent, n, err, Clock, AllOrders)
ConnWrite == HandleWrite(1)
ConnClose == HandleClose(1)

ConnNext == ConnRead \/ ConnWrite \/ ConnClose
SpecConn == ConnInit /\ [][ConnNext]_vars

ReadFailed(c) == conn[c].read # None /\ The(conn[c].read).err
ReadNothing(c) ==
    conn[c].read # None /\ ~The(conn[c].read).err /\ The(conn[c].read).n = 0
ReadSomething(c) ==
    conn[c].read # None /\ ~The(conn[c].read).err /\ The(conn[c].read).n > 0

\* C5: when the read returns an error or zero bytes the request is not
\* parsed, no handler is called and nothing is ever written.
C5_NoResponseWithoutData ==
    \A c \in Conns :
        (ReadFailed(c) \/ ReadNothing(c)) =>
            /\ conn[c].parsed = None
            /\ conn[c].handler = <<>>
            /\ conn[c].out = None
            /\ conn[c].written = <<>>

\* The same, for a read that returns an error.
C5_NoResponseAfterReadError ==
    \A c \in Conns :
        ReadFailed(c) =>
            /\ conn[c].parsed = None
            /\ conn[c].handler = <<>>
            /\ conn[c].out = None
            /\ conn[c].written = <<>>

\* The status code of a formatted response: the text between the first two
\* spaces of its first line.
EmittedStatus(out) == Split(Split(out, CRLF)[1], <<SP>>)[2]

\* C6: when no route matches the parsed request no handler is called and the
\* response written has status 404 and the not-found message with the
\* requested path, its query string stripped, as body; when a route matches,
\* the status and body written are those the handler of the earliest
\* matching route leaves, given a response of status 200 and empty body.
C6_NotFoundOrHandler ==
    \A c \in Conns :
        conn[c].parsed # None =>
            LET req == The(conn[c].parsed)
                hits == Matching(routes, req)
                after == ApplyHandler(routes[MinOf(hits)].handler, req,
                             [StatusCode |-> 200,
                              Headers |-> DefaultResponse.Headers,
                              Body |-> <<>>])
                sent == conn[c].written
            IN  /\ hits = {} => conn[c].handler = <<>>
                /\ hits # {} => conn[c].handler = <<routes[MinOf(hits)].handler>>
                /\ pc[c] \in {"close", "done"} => Len(sent) = 1
                /\ \A i \in 1..Len(sent) :
                      IF hits = {}
                      THEN /\ EmittedStatus(sent[i]) = <<"4", "0", "4">>
                           /\ EmittedBody(sent[i]) = <<"4", "0", "4", " ", "N", "o", "t", " ", "F", "o", "u", "n", "d", ":", " ">> \o req.Path
                           /\ "?" \notin Chars(req.Path)
                      ELSE /\ DecimalValue(EmittedStatus(sent[i])) = after.StatusCode
                           /\ EmittedBody(sent[i]) = after.Body

\* A response written for a request with a query string that matched no
\* route of a table that is not empty.
C6_Witness ==
    /\ routes # NewServer
    /\ pc[1] = "done"
    /\ conn[1].parsed # None
    /\ The(conn[1].parsed).Path = <<"/", "m", "i", "s", "s", "i", "n", "g">>
    /\ The(conn[1].parsed).QueryParams # EmptyMap
    /\ Len(conn[1].written) = 1
    /\ EmittedStatus(conn[1].written[1]) = <<"4", "0", "4">>

\* Whether a string is a formatted response: a status line, a header block
\* holding Content-Length and Date, an empty line.
IsResponse(out) ==
    /\ HasPrefixAt(out, 1, <<"H", "T", "T", "P", "/", "1", ".", "1", " ">>)
    /\ Index(out, CRLF \o CRLF) # 0
    /\ {<<"C", "o", "n", "t", "e", "n", "t", "-", "L", "e", "n", "g", "t", "h">>, <<"D", "a", "t", "e">>} \subseteq {p[1] : p \in EmittedHeaders(out)}

\* C7: after a read that returned bytes without an error, whatever the bytes,
\* handleConnection goes on: the request is parsed, and when the connection is
\* closed exactly one formatted response has been written to it, before the
\* close.
C7_AlwaysAnswers ==
    \A c \in Conns :
        ReadSomething(c) =>
            /\ conn[c].parsed # None
            /\ pc[c] \in {"write", "close", "done"}
            /\ pc[c] \in {"close", "done"} =>
                  /\ Len(conn[c].written) = 1
                  /\ IsResponse(conn[c].written[1])
            /\ pc[c] = "done" => conn[c].ops = <<"read", "write", "close">>

\* A connection closed after text with no space and no CRLF was read from it
\* and answered.
C7_Witness ==
    /\ pc[1] = "done"
    /\ ReadSomething(1)
    /\ The(conn[1].parsed).Method = <<>>
    /\ The(conn[1].parsed).Path = <<>>
    /\ The(conn[1].read).n = Len(<<"g", "a", "r", "b", "a", "g", "e">>)
    /\ Len(conn[1].written) = 1

\* C10: a run of handleConnection that returns has closed its connection
\* once, as the last call on it: the calls are a read, then at most one
\* write, then the close.
C10_CloseOnceAndLast ==
    \A c \in Conns :
        /\ conn[c].ops \in {<<>>, <<"read">>, <<"read", "write">>,
                            <<"read", "close">>, <<"read", "write", "close">>}
        /\ pc[c] = "done" =>
              conn[c].ops \in {<<"read", "close">>, <<"read", "write", "close">>}
        /\ pc[c] # "done" => "close" \notin Chars(conn[c].ops)

\* A run that returned after a failed read, the connection closed and
\* nothing written.
C10_Witness ==
    /\ pc[1] = "done"
    /\ ReadFailed(1)
    /\ conn[1].ops = <<"read", "close">>

-----------------------------------------------------------------------------
(* SpecServer: Server.Start and the goroutines it starts.                  *)

\* The accept loop and the goroutines do not read what is written: one
\* request, one time of day and one order of the headers stand for all.
ServerInbound == {<<"G", "E", "T", " ", "/", "x", " ", "H", "T", "T", "P", "/", "1", ".", "1", "\r", "\n", "\r", "\n">>}
OneTime == {CHOOSE now \in Clock : TRUE}

ServerInit ==
    /\ routes = ServerRoutes
    /\ lastMatch = None
    /\ ServerIdle
    /\ ParserIdle /\ FormatIdle

ServerListen == \E ok \in BOOLEAN : Listen(ok)
ServerAccept == \E kind \in PeerKinds : Accept(kind)
ServerAcceptError == AcceptError(MaxAcceptErrors)
ServerRead(c) ==
    \E sent \in ServerInbound, err \in BOOLEAN :
    \E n \in IF err THEN {0} ELSE {0, Len(sent)} :
        HandleRead(c, sent, n, err, OneTime, OneOrderEach)

ServerNext ==
    \/ ServerListen
    \/ ServerAccept
    \/ ServerAcceptError
    \/ \E c \in Conns : ServerRead(c)
    \/ \E c \in Conns : HandleWrite(c)
    \/ \E c \in Conns : HandleClose(c)

\* The goroutine of connection c leaves its call of conn.Read: the step
\* ServerRead(c) takes, told by where it leaves the goroutine.
ReadReturns(c) ==
    /\ pc[c] = "read"
    /\ peer[c] # "silent"
    /\ \E next \in {"write", "close", "done"} : pc' = [pc EXCEPT ![c] = next]

\* Every goroutine that can run does run: a Read on a peer that sends
\* returns, a Write to a peer that reads returns, Close returns; and a client
\* that connects is accepted.
SpecServer ==
    /\ ServerInit
    /\ [][ServerNext]_vars
    /\ WF_vars(ServerAccept)
    /\ \A c \in Conns :
          /\ WF_pc(ReadReturns(c))
          /\ WF_vars(HandleWrite(c))
          /\ WF_vars(HandleClose(c))

\* C8: whatever the other connections do (a peer that never sends, a peer
\* that never reads, a failed read), a connection whose peer sends and reads
\* is served and closed, with one response written unless its own read
\* failed; and the accept loop goes on accepting, after failed accepts too.
C8_Isolation ==
    /\ \A c \in Conns :
          (pc[c] = "read" /\ peer[c] = "sends") ~>
              (/\ pc[c] = "done"
               /\ conn[c].ops[Len(conn[c].ops)] = "close"
               /\ ~ReadFailed(c) => Len(conn[c].written) = 1)
    /\ (listener = "accepting") ~> (accepted = MaxConns)
    /\ [](listener = "accepting" /\ accepted < MaxConns => ENABLED ServerAccept)

\* A connection served and closed after an Accept had failed, while an
\* earlier connection is still waiting for its peer to send.
C8_Witness ==
    \E c1, c2 \in Conns :
        /\ c1 < c2
        /\ pc[c1] = "read" /\ peer[c1] = "silent"
        /\ acceptErrors > 0
        /\ pc[c2] = "done"
        /\ Len(conn[c2].written) = 1

=============================================================================
